---------------------------- MODULE Spec2Model ----------------------------
(***************************************************************************)
(* Model of src/streamlit_app.py: the transfer-tax calculator, the         *)
(* mortgage amortizer and the two scenario simulators.                     *)
(*                                                                         *)
(* The program computes on Python floats.  The model computes on exact     *)
(* rationals (records [num, den] in lowest terms, den > 0), so an equality *)
(* of the model is an equality "up to floating-point rounding" of the      *)
(* program.  TLC's integers are 32 bits wide, which is why the loans and   *)
(* rates of the input sets below are chosen so that (1 + r)^(12 * term)    *)
(* and every intermediate numerator stay below 2^31.                       *)
(*                                                                         *)
(* A call either returns a value or raises a Python exception; both are    *)
(* results of the model: [kind |-> "return", ...] or [kind |-> "raise"].   *)
(***************************************************************************)
EXTENDS Integers, Sequences, FiniteSets

VARIABLES fn, args, pc, ret

vars == <<fn, args, pc, ret>>

----------------------------------------------------------------------------
(* Exact rational arithmetic standing for the program's float arithmetic.  *)

Abs(n) == IF n < 0 THEN -n ELSE n

RECURSIVE GCD(_, _)
GCD(a, b) == IF b = 0 THEN a ELSE GCD(b, a % b)

Rat(n, d) ==
    LET s == IF d < 0 THEN -1 ELSE 1
        g == GCD(Abs(n), Abs(d))
    IN  [num |-> s * (n \div g), den |-> s * (d \div g)]

RInt(n) == [num |-> n, den |-> 1]

RNeg(x) == [num |-> -x.num, den |-> x.den]

RAdd(x, y) ==
    LET g == GCD(x.den, y.den)
        l == (x.den \div g) * y.den
    IN  Rat(x.num * (l \div x.den) + y.num * (l \div y.den), l)

RSub(x, y) == RAdd(x, RNeg(y))

RMul(x, y) ==
    LET g1 == GCD(Abs(x.num), y.den)
        g2 == GCD(Abs(y.num), x.den)
    IN  [num |-> (x.num \div g1) * (y.num \div g2),
         den |-> (x.den \div g2) * (y.den \div g1)]

RIsZero(x) == x.num = 0

\* x / y for y # 0 (the callers raise ZeroDivisionError before dividing by 0)
RDiv(x, y) ==
    RMul(x, IF y.num < 0 THEN [num |-> -y.den, den |-> -y.num]
                         ELSE [num |-> y.den, den |-> y.num])

RLt(x, y) == RSub(x, y).num < 0

RLe(x, y) == RSub(x, y).num <= 0

RMin(x, y) == IF RLe(x, y) THEN x ELSE y

RECURSIVE RPowNat(_, _)
RPowNat(x, k) ==
    IF k = 0 THEN RInt(1)
    ELSE IF k % 2 = 0 THEN RMul(RPowNat(x, k \div 2), RPowNat(x, k \div 2))
    ELSE RMul(x, RPowNat(x, k - 1))

\* x ** k for an integer k and x # 0 when k < 0
RPow(x, k) == IF k >= 0 THEN RPowNat(x, k) ELSE RDiv(RInt(1), RPowNat(x, -k))

\* Python's round(x, 2): to the nearest hundredth.  An exact tie is rounded to
\* the even hundredth here; in the program the float's representation error
\* decides it, and no input below produces a tie.
Round2(x) ==
    LET h == RMul(x, RInt(100))
        q == h.num \div h.den
        r == h.num - q * h.den
        up == \/ 2 * r > h.den
              \/ (2 * r = h.den /\ q % 2 = 1)
    IN  Rat(IF up THEN q + 1 ELSE q, 100)

\* the sum of s[lo .. hi], by halves (the order of an exact sum is immaterial)
RECURSIVE RSumRange(_, _, _)
RSumRange(s, lo, hi) ==
    IF lo > hi THEN RInt(0)
    ELSE IF lo = hi THEN s[lo]
    ELSE RAdd(RSumRange(s, lo, (lo + hi) \div 2),
              RSumRange(s, (lo + hi) \div 2 + 1, hi))

RSum(s) == RSumRange(s, 1, Len(s))

----------------------------------------------------------------------------
(* Results of a call.                                                      *)

Return(v) == [kind |-> "return", value |-> v, exc |-> "none"]

Raise(e) == [kind |-> "raise", value |-> <<>>, exc |-> e]

NoResult == [kind |-> "pending", value |-> <<>>, exc |-> "none"]

----------------------------------------------------------------------------
(* calculate_reet: the tiered excise tax.                                  *)

\* the bracket table: (limit, rate), the last limit being float('inf')
brackets ==
    << [inf |-> FALSE, limit |-> 525000,  rate |-> Rat(11, 1000)],
       [inf |-> FALSE, limit |-> 1525000, rate |-> Rat(128, 10000)],
       [inf |-> FALSE, limit |-> 3025000, rate |-> Rat(275, 10000)],
       [inf |-> TRUE,  limit |-> 0,       rate |-> Rat(30, 1000)] >>

\* purchase_price > limit
AboveLimit(purchase_price, b) ==
    IF b.inf THEN FALSE ELSE RLt(RInt(b.limit), purchase_price)

\* calculate_reet with `tax += limit * rate`: the whole bracket limit is
\* taxed at each bracket's rate, not the slice inside the bracket
RECURSIVE reet_loop_whole_limit(_, _, _, _)
reet_loop_whole_limit(purchase_price, i, tax, prev_limit) ==
    IF i > Len(brackets) THEN tax
    ELSE IF AboveLimit(purchase_price, brackets[i])
         THEN reet_loop_whole_limit(purchase_price, i + 1,
                                    RAdd(tax, RMul(RInt(brackets[i].limit),
                                                   brackets[i].rate)),
                                    brackets[i].limit)
         ELSE RAdd(tax, RMul(RSub(purchase_price, RInt(prev_limit)),
                             brackets[i].rate))

\* calculate_reet with `tax = ...` in the last bracket: the tax of the
\* brackets below is dropped
RECURSIVE reet_loop_overwrite(_, _, _, _)
reet_loop_overwrite(purchase_price, i, tax, prev_limit) ==
    IF i > Len(brackets) THEN tax
    ELSE IF AboveLimit(purchase_price, brackets[i])
         THEN reet_loop_overwrite(purchase_price, i + 1,
                                  RAdd(tax, RMul(RInt(brackets[i].limit - prev_limit),
                                                 brackets[i].rate)),
                                  brackets[i].limit)
         ELSE RMul(RSub(purchase_price, RInt(prev_limit)), brackets[i].rate)

\* the for loop of calculate_reet from bracket i on
RECURSIVE reet_loop(_, _, _, _)
reet_loop(purchase_price, i, tax, prev_limit) ==
    IF i > Len(brackets) THEN tax
    ELSE IF AboveLimit(purchase_price, brackets[i])
         THEN reet_loop(purchase_price, i + 1,
                        RAdd(tax, RMul(RInt(brackets[i].limit - prev_limit),
                                       brackets[i].rate)),
                        brackets[i].limit)
         ELSE RAdd(tax, RMul(RSub(purchase_price, RInt(prev_limit)),
                             brackets[i].rate))

calculate_reet(purchase_price) ==
    Return(Round2(reet_loop(purchase_price, 1, RInt(0), 0)))

----------------------------------------------------------------------------
(* The mortgage amortizer.                                                 *)

MonthsPerYear == 12

\* (1 + monthly_rate) ** -n_payments is a ZeroDivisionError for a zero base
\* and a negative exponent, and so is the division by 1 - 1 = 0
payment_denominator(monthly_rate, n_payments) ==
    RSub(RInt(1), RPow(RAdd(RInt(1), monthly_rate), -n_payments))

calculate_mortgage_payment(loan_amount, annual_rate, term_years) ==
    LET monthly_rate == RDiv(annual_rate, RInt(MonthsPerYear))
        n_payments == term_years * MonthsPerYear
    IN  IF RIsZero(RAdd(RInt(1), monthly_rate)) /\ -n_payments < 0
        THEN Raise("ZeroDivisionError")
        ELSE IF RIsZero(payment_denominator(monthly_rate, n_payments))
        THEN Raise("ZeroDivisionError")
        ELSE Return(RDiv(RMul(loan_amount, monthly_rate),
                         payment_denominator(monthly_rate, n_payments)))

\* range(0, n_payments): the months counted from 0
schedule_months_from_zero(n_payments) ==
    IF n_payments < 1 THEN <<>> ELSE [k \in 1 .. n_payments |-> k - 1]

\* range(1, n_payments): the final month is missing
schedule_months_short(n_payments) ==
    IF n_payments < 2 THEN <<>> ELSE [k \in 1 .. n_payments - 1 |-> k]

\* range(1, n_payments + 1), as the sequence of its months
schedule_months(n_payments) ==
    IF n_payments < 1 THEN <<>> ELSE [k \in 1 .. n_payments |-> k]

\* the body of the for loop of calculate_mortgage_schedule for one month
schedule_entry(month, balance, monthly_rate, monthly_payment) ==
    LET interest_payment == RMul(balance, monthly_rate)
        principal_payment == RSub(monthly_payment, interest_payment)
    IN  [Month |-> month,
         Interest |-> interest_payment,
         Principal |-> principal_payment,
         RemainingBalance |-> RSub(balance, principal_payment)]

\* the for loop of calculate_mortgage_schedule from the i-th month of the range on
RECURSIVE schedule_loop(_, _, _, _, _, _)
schedule_loop(months, i, balance, monthly_rate, monthly_payment, schedule) ==
    IF i > Len(months) THEN schedule
    ELSE LET e == schedule_entry(months[i], balance, monthly_rate, monthly_payment)
         IN  schedule_loop(months, i + 1, e.RemainingBalance,
                           monthly_rate, monthly_payment, Append(schedule, e))

\* the result is the DataFrame of the entries; an empty sequence is the
\* DataFrame without columns that pd.DataFrame([]) builds
calculate_mortgage_schedule(loan_amount, annual_rate, term_years) ==
    LET monthly_rate == RDiv(annual_rate, RInt(MonthsPerYear))
        n_payments == term_years * MonthsPerYear
        monthly_payment == calculate_mortgage_payment(loan_amount, annual_rate, term_years)
    IN  IF monthly_payment.kind = "raise" THEN monthly_payment
        ELSE Return(schedule_loop(schedule_months(n_payments), 1, loan_amount,
                                  monthly_rate, monthly_payment.value, <<>>))

----------------------------------------------------------------------------
(* The scenario simulators.                                                *)

\* schedule[schedule['Month'].between(lo, hi)]['Interest'].sum()
interest_between(schedule, lo, hi) ==
    LET rows == SelectSeq(schedule, LAMBDA e : lo <= e.Month /\ e.Month <= hi)
    IN  RSum([k \in 1 .. Len(rows) |-> rows[k].Interest])

\* schedule[schedule['Month'] == month]['Remaining Balance'].values: the
\* balances of the rows of that month
balances_at(schedule, month) ==
    LET rows == SelectSeq(schedule, LAMBDA e : e.Month = month)
    IN  [k \in 1 .. Len(rows) |-> rows[k].RemainingBalance]

\* the terminal entry: appreciated value less remaining balance and excise tax
net_sale_proceeds(value, appreciation_rate, years, remaining_balance) ==
    LET appreciated_value == RMul(value, RPow(RAdd(RInt(1), appreciation_rate), years))
    IN  RSub(RSub(appreciated_value, remaining_balance),
             calculate_reet(appreciated_value).value)

\* the upfront entry derived from the inputs: the equity given up
stay_upfront_equity(home_value, mortgage_balance) ==
    RNeg(RSub(home_value, mortgage_balance))

\* cash_flows = [-600_000]
stay_upfront(home_value, mortgage_balance) == RInt(-600000)

\* the body of the for loop of simulate_stay_full for one year
stay_year_cash_flow(schedule, year, monthly_pmt, annual_tax, monthly_ins, tax_rate) ==
    LET interest == interest_between(schedule, (year - 1) * MonthsPerYear + 1,
                                     year * MonthsPerYear)
        mortgage_interest_deduction == RMul(interest, tax_rate)
        annual_piti == RMul(RAdd(RAdd(monthly_pmt,
                                      RDiv(annual_tax, RInt(MonthsPerYear))),
                                 monthly_ins),
                            RInt(MonthsPerYear))
    IN  RAdd(RNeg(annual_piti), mortgage_interest_deduction)

\* range(1, years + 1) of the simulators, as a sequence
holding_years(years) == IF years < 1 THEN <<>> ELSE [y \in 1 .. years |-> y]

\* An empty DataFrame has no 'Month' column: schedule['Month'] is a KeyError,
\* in the first year of the loop or, without one, in the balance lookup.
\* A lookup that matches no row indexes an empty array: .values[0] is an
\* IndexError.
simulate_stay_full(home_value, mortgage_balance, rate, term_remaining, annual_tax, monthly_ins, appreciation_rate, tax_rate, years) ==
    LET monthly_pmt == calculate_mortgage_payment(mortgage_balance, rate, term_remaining)
        schedule == calculate_mortgage_schedule(mortgage_balance, rate, term_remaining)
        yearly == [k \in 1 .. Len(holding_years(years)) |->
                     stay_year_cash_flow(schedule.value, holding_years(years)[k],
                                         monthly_pmt.value, annual_tax, monthly_ins,
                                         tax_rate)]
        balances == balances_at(schedule.value, years * MonthsPerYear)
    IN  IF monthly_pmt.kind = "raise" THEN monthly_pmt
        ELSE IF schedule.kind = "raise" THEN schedule
        ELSE IF schedule.value = <<>> THEN Raise("KeyError")
        ELSE IF balances = <<>> THEN Raise("IndexError")
        ELSE Return(<<stay_upfront(home_value, mortgage_balance)>> \o yearly \o
                    <<net_sale_proceeds(home_value, appreciation_rate, years,
                                        balances[1])>>)

ClosingCostRate == Rat(15, 1000)

\* the deduction without the cap on the deductible principal
annual_tax_savings_uncapped(loan_amount, rate, tax_rate) ==
    RMul(RMul(loan_amount, rate), tax_rate)

\* deductible_interest = min(750_000, loan_amount) * rate, times tax_rate
annual_tax_savings(loan_amount, rate, tax_rate) ==
    RMul(RMul(RMin(RInt(750000), loan_amount), rate), tax_rate)

\* the body of the for loop of simulate_home_ownership
buy_year_cash_flow(monthly_pmt, tax, ins, tax_savings) ==
    LET annual_piti == RMul(RAdd(RAdd(monthly_pmt, tax), ins), RInt(MonthsPerYear))
    IN  RAdd(RNeg(annual_piti), tax_savings)

simulate_home_ownership(purchase_price, equity, existing_mortgage, existing_rate, existing_term, rate, term_years, tax, ins, down_pct, appreciation, tax_rate, years) ==
    LET down_payment == RMul(purchase_price, down_pct)
        loan_amount == RSub(purchase_price, down_payment)
        monthly_pmt == calculate_mortgage_payment(loan_amount, rate, term_years)
        schedule == calculate_mortgage_schedule(loan_amount, rate, term_years)
        reet == calculate_reet(purchase_price).value
        closing_costs == RMul(purchase_price, ClosingCostRate)
        net_proceeds == equity
        upfront == RSub(RSub(RSub(net_proceeds, down_payment), closing_costs), reet)
        yearly == [k \in 1 .. Len(holding_years(years)) |->
                     buy_year_cash_flow(monthly_pmt.value, tax, ins,
                                        annual_tax_savings(loan_amount, rate, tax_rate))]
        balances == balances_at(schedule.value, years * MonthsPerYear)
    IN  IF monthly_pmt.kind = "raise" THEN monthly_pmt
        ELSE IF schedule.kind = "raise" THEN schedule
        ELSE IF schedule.value = <<>> THEN Raise("KeyError")
        ELSE IF balances = <<>> THEN Raise("IndexError")
        ELSE Return(<<upfront>> \o yearly \o
                    <<net_sale_proceeds(purchase_price, appreciation, years,
                                        balances[1])>>)

----------------------------------------------------------------------------
(* The inputs of the calls.                                                *)

MaxPriceSteps == 14

MaxYears == 2

\* prices around every bracket boundary, a negative one, and a grid of half
\* the first bracket's width
ReetPrices ==
    {-1000, 0, 1, 524999, 525000, 525001, 1000000, 1525000, 1525001,
     3025000, 3025001, 3500000}
      \cup {k * 262500 : k \in 0 .. MaxPriceSteps}

\* term_years: negative, zero, and the terms whose (1 + r)^(12 * term) fits
Terms == {-1, 0, 1, 2}

\* (loan_amount, annual_rate, term_years): a zero loan, loans below and above
\* the deduction cap, a zero rate, and the rates 600%, 1200% and 2400% a year
\* (monthly rates 1/2, 1 and 2), each with loans that keep the schedule within
\* TLC's integers
Loans ==
    {[loan_amount |-> RInt(l), annual_rate |-> RInt(r), term_years |-> t] :
        l \in {0, 16380, 16777215}, r \in {0, 12}, t \in Terms}
      \cup {[loan_amount |-> RInt(1054690), annual_rate |-> RInt(6), term_years |-> 1],
            [loan_amount |-> RInt(265720), annual_rate |-> RInt(24), term_years |-> 1]}

\* The simulators add taxes, insurance and sale proceeds to the schedule's
\* amounts: their two-year loans are multiples of 2^24 - 1, whose payments at
\* a monthly rate of 1 are whole numbers.
WholeSchedule(loan_amount, term_years) ==
    term_years = 2 => loan_amount.num % 16777215 = 0

Years == -1 .. MaxYears

ReetCalls == {[purchase_price |-> RInt(p)] : p \in ReetPrices}

StayCalls ==
    {[home_value |-> RInt(hv), mortgage_balance |-> m.loan_amount,
      rate |-> m.annual_rate, term_remaining |-> m.term_years,
      annual_tax |-> RInt(8800), monthly_ins |-> RInt(800),
      appreciation_rate |-> ap, tax_rate |-> tr, years |-> y] :
        hv \in {500000, 1000000},
        m \in {l \in Loans : WholeSchedule(l.loan_amount, l.term_years)},
        ap \in {RInt(0), Rat(4, 100)}, tr \in {RInt(0), Rat(25, 100)}, y \in Years}

\* (purchase_price, term_years), the loan at 20% down being 0, 32760 (below
\* the deduction cap) or 4 * 16777215 (above it)
BuyPrices == {c \in {0, 40950, 83886075} \X Terms : WholeSchedule(RMul(RInt(c[1]), Rat(80, 100)), c[2])}

BuyCalls ==
    {[purchase_price |-> RInt(c[1]), equity |-> RInt(600000),
      existing_mortgage |-> RInt(400000), existing_rate |-> Rat(475, 10000),
      existing_term |-> 24, rate |-> RInt(r), term_years |-> c[2],
      tax |-> RInt(1993), ins |-> RInt(1078), down_pct |-> Rat(20, 100),
      appreciation |-> ap, tax_rate |-> tr, years |-> y] :
        c \in BuyPrices, r \in {0, 12},
        ap \in {RInt(0), RInt(1)}, tr \in {RInt(0), Rat(25, 100)}, y \in Years}

----------------------------------------------------------------------------
(* The state machine: a caller holds the arguments of one call (pc =       *)
(* "ready"); the call runs to its result (pc = "done").  Calls share no    *)
(* state, so one call per behaviour covers the program.                    *)

Init ==
    /\ pc = "ready"
    /\ ret = NoResult
    /\ \/ fn = "calculate_reet" /\ args \in ReetCalls
       \/ fn = "calculate_mortgage_payment" /\ args \in Loans
       \/ fn = "calculate_mortgage_schedule" /\ args \in Loans
       \/ fn = "simulate_stay_full" /\ args \in StayCalls
       \/ fn = "simulate_home_ownership" /\ args \in BuyCalls

Finish(result) ==
    /\ pc' = "done"
    /\ ret' = result
    /\ UNCHANGED <<fn, args>>

CallReet ==
    /\ pc = "ready" /\ fn = "calculate_reet"
    /\ Finish(calculate_reet(args.purchase_price))

CallPayment ==
    /\ pc = "ready" /\ fn = "calculate_mortgage_payment"
    /\ Finish(calculate_mortgage_payment(args.loan_amount, args.annual_rate, args.term_years))

CallSchedule ==
    /\ pc = "ready" /\ fn = "calculate_mortgage_schedule"
    /\ Finish(calculate_mortgage_schedule(args.loan_amount, args.annual_rate, args.term_years))

CallStay ==
    /\ pc = "ready" /\ fn = "simulate_stay_full"
    /\ Finish(simulate_stay_full(args.home_value, args.mortgage_balance, args.rate,
                                 args.term_remaining, args.annual_tax, args.monthly_ins,
                                 args.appreciation_rate, args.tax_rate, args.years))

CallBuy ==
    /\ pc = "ready" /\ fn = "simulate_home_ownership"
    /\ Finish(simulate_home_ownership(args.purchase_price, args.equity,
                                      args.existing_mortgage, args.existing_rate,
                                      args.existing_term, args.rate, args.term_years,
                                      args.tax, args.ins, args.down_pct,
                                      args.appreciation, args.tax_rate, args.years))

Next == CallReet \/ CallPayment \/ CallSchedule \/ CallStay \/ CallBuy

Spec == Init /\ [][Next]_vars

----------------------------------------------------------------------------
(* Vocabulary of the properties.                                           *)

Done(f) == pc = "done" /\ fn = f

Returned(f) == Done(f) /\ ret.kind = "return"

Simulators == {"simulate_stay_full", "simulate_home_ownership"}

SimDone == pc = "done" /\ fn \in Simulators

SimTerm == IF fn = "simulate_stay_full" THEN args.term_remaining ELSE args.term_years

\* a simulator call with a holding period, a term and a rate that are valid
ValidSimCall == args.years >= 1 /\ SimTerm >= 1 /\ ~RIsZero(args.rate)

MaxOf(a, b) == IF a >= b THEN a ELSE b

MinOf(a, b) == IF a <= b THEN a ELSE b

\* The bracket table as the specification states it: (lower, upper, rate in
\* 1/10000), and the rate above the last upper bound.
StatedBrackets == << <<0, 525000, 110>>, <<525000, 1525000, 128>>, <<1525000, 3025000, 275>> >>

StatedTopRate == Rat(300, 10000)

\* the tiered marginal tax of a whole-dollar price p >= 0, unrounded
MarginalTax(p) ==
    RAdd(RSum([i \in 1 .. Len(StatedBrackets) |->
                 RMul(RInt(MaxOf(0, MinOf(p, StatedBrackets[i][2]) - StatedBrackets[i][1])),
                      Rat(StatedBrackets[i][3], 10000))]),
         RMul(RInt(MaxOf(0, p - StatedBrackets[Len(StatedBrackets)][2])), StatedTopRate))

\* TransferTax over the non-negative prices, with `at_million` as the stated
\* value of TransferTax(1000000)
ReetIsMarginal(at_million) ==
    (Returned("calculate_reet") /\ args.purchase_price.num >= 0) =>
        /\ ret.value = Round2(MarginalTax(args.purchase_price.num))
        /\ args.purchase_price = RInt(0) => ret.value = RInt(0)
        /\ args.purchase_price = RInt(525000) => ret.value = RMul(RInt(525000), Rat(11, 1000))
        /\ args.purchase_price = RInt(1000000) =>
              /\ ret.value = RAdd(RMul(RInt(525000), Rat(11, 1000)),
                                  RMul(RInt(475000), Rat(128, 10000)))
              /\ ret.value = RInt(at_million)

----------------------------------------------------------------------------
(* The properties.                                                         *)

\* C1: for every input, simulate_stay_full and simulate_home_ownership return
\* a cash-flow sequence of length years + 2.  Stated here for the calls with
\* years >= 1, a term >= 1 and a non-zero rate, where it already fails.
C1_LengthAlwaysYearsPlus2 ==
    (SimDone /\ ValidSimCall) =>
        (ret.kind = "return" /\ Len(ret.value) = args.years + 2)

\* C2 as stated: calculate_reet returns the tiered marginal tax (to the
\* cent) of every non-negative price, 0 at 0, 525000 * 0.011 at 525000, and
\* 525000*0.011 + 475000*0.0128 = 11,825 at 1000000.
C2_ReetMarginal_AsStated == ReetIsMarginal(11825)

\* C2 amended: the same, the value at 1000000 being
\* 525000*0.011 + 475000*0.0128 = 11,855.
C2_ReetMarginal == ReetIsMarginal(11855)

C2_Witness ==
    Returned("calculate_reet") /\ args.purchase_price = RInt(1000000)

\* C3: calculate_reet is monotonic: the tax of every lower price is at most
\* the tax returned for this price.
C3_ReetMonotonic ==
    Returned("calculate_reet") =>
        \A q \in ReetPrices :
            q < args.purchase_price.num =>
                RLe(calculate_reet(RInt(q)).value, ret.value)

\* a price just above the first bracket boundary, compared with 525000 below it
C3_Witness ==
    Returned("calculate_reet") /\ args.purchase_price = RInt(525001)

\* C4: when the holding period exceeds the loan term, the simulators resolve
\* the balance lookup by a policy and return a cash-flow sequence.
C4_LookupMissResolved ==
    (SimDone /\ ValidSimCall /\ args.years > SimTerm) => ret.kind = "return"

\* C5: calculate_mortgage_payment with annual_rate = 0 returns
\* loan_amount / (term_years * 12).
C5_ZeroRatePayment ==
    (Done("calculate_mortgage_payment") /\ RIsZero(args.annual_rate)
        /\ args.term_years >= 1) =>
        ret = Return(RDiv(args.loan_amount, RInt(args.term_years * MonthsPerYear)))

C7_StayUpfrontConstant ==
    Returned("simulate_stay_full") =>
        /\ ret.value[1] = RInt(-600000)
        /\ Len(ret.value) = args.years + 2

\* a returned stay scenario whose equity is not 600000
C7_Witness ==
    /\ Returned("simulate_stay_full")
    /\ RSub(args.home_value, args.mortgage_balance) # RInt(600000)
    /\ args.years = 2

\* C8: a negative price, a negative term, and zero or negative years make
\* the called operation fail with an error instead of returning a result.
C8_InvalidInputFailsFast ==
    /\ (Done("calculate_reet") /\ args.purchase_price.num < 0) => ret.kind = "raise"
    /\ (Done("calculate_mortgage_schedule") /\ args.term_years < 0) => ret.kind = "raise"
    /\ (SimDone /\ args.years <= 0) => ret.kind = "raise"

\* the balance before month k of schedule s of a loan
BalanceBefore(s, k, loan_amount) ==
    IF k = 1 THEN loan_amount ELSE s[k - 1].RemainingBalance

\* The schedule invariant: the months 1 .. term_years * 12 in order; every
\* entry's interest and principal add up to the one fixed payment; the
\* interest is charged on the balance before the month, which before month 1
\* is the loan amount; and, for the loans of `decreasing`, the remaining
\* balance strictly decreases from month to month.
ScheduleInvariant(decreasing) ==
    Returned("calculate_mortgage_schedule") =>
        LET s == ret.value
            payment == calculate_mortgage_payment(args.loan_amount, args.annual_rate,
                                                  args.term_years).value
            monthly_rate == RDiv(args.annual_rate, RInt(MonthsPerYear))
        IN  /\ Len(s) = MaxOf(0, args.term_years * MonthsPerYear)
            /\ \A k \in 1 .. Len(s) :
                  /\ s[k].Month = k
                  /\ RAdd(s[k].Interest, s[k].Principal) = payment
                  /\ s[k].Interest = RMul(BalanceBefore(s, k, args.loan_amount), monthly_rate)
                  /\ s[k].RemainingBalance =
                        RSub(BalanceBefore(s, k, args.loan_amount), s[k].Principal)
                  /\ args.loan_amount \in decreasing =>
                        RLt(s[k].RemainingBalance, BalanceBefore(s, k, args.loan_amount))
                  /\ args.loan_amount = RInt(0) => s[k].RemainingBalance = RInt(0)

LoanAmounts == {l.loan_amount : l \in Loans}

\* C9 as stated: the schedule invariant, the remaining balance of every
\* schedule being strictly decreasing from month to month until the final
\* month.
C9_ScheduleInvariant_AsStated == ScheduleInvariant(LoanAmounts)

\* C9 amended: the schedule invariant, the remaining balance being strictly
\* decreasing from month to month until the final month when the loan amount
\* is positive; the balance of a zero loan stays at zero.
C9_ScheduleInvariant == ScheduleInvariant({l \in LoanAmounts : RLt(RInt(0), l)})

\* a one-year schedule of a positive loan at a monthly rate of 1/2
C9_Witness ==
    /\ Returned("calculate_mortgage_schedule")
    /\ args.annual_rate = RInt(6)
    /\ Len(ret.value) = 12
    /\ RLt(ret.value[12].RemainingBalance, ret.value[11].RemainingBalance)

\* C10: the cash flows 1 .. years of simulate_home_ownership all equal
\* min(750000, loan_amount) * rate * tax_rate - (monthly_payment + tax + ins) * 12,
\* computed from the initial loan.
C10_BuyYearlyConstant ==
    Returned("simulate_home_ownership") =>
        LET loan_amount == RSub(args.purchase_price,
                                RMul(args.purchase_price, args.down_pct))
            monthly_payment == calculate_mortgage_payment(loan_amount, args.rate,
                                                          args.term_years).value
            capped == IF RLt(RInt(750000), loan_amount) THEN RInt(750000) ELSE loan_amount
            savings == RMul(RMul(capped, args.rate), args.tax_rate)
            piti == RMul(RAdd(RAdd(monthly_payment, args.tax), args.ins), RInt(12))
        IN  \A y \in 1 .. args.years : ret.value[y + 1] = RSub(savings, piti)

\* two holding years of a loan above the cap, at a non-zero tax rate
C10_Witness ==
    /\ Returned("simulate_home_ownership")
    /\ args.years = 2
    /\ args.purchase_price = RInt(83886075)
    /\ ~RIsZero(args.tax_rate)
    /\ ret.value[2] = ret.value[3]

=============================================================================
